---- MODULE Spec2Model ----
(***************************************************************************)
(* A model of MemoryStore (dist/storage.js): one SQLite table "memories",  *)
(* the helpers normalizeTags / serializeJson / parseJson, and the five     *)
(* operations addMemory, getMemory, listMemories, updateMemory and         *)
(* deleteMemory.                                                           *)
(*                                                                         *)
(* Strings are sequences of one-character strings.  A JavaScript value is  *)
(* a record whose single field names its type:                             *)
(*   [undef |-> TRUE]  undefined      [null |-> TRUE]  null                *)
(*   [num |-> n]       a number       [nan |-> TRUE]   NaN                 *)
(*   [half |-> n]      the number n + 1/2, a number that is no integer     *)
(*   [str |-> s]       a string       [arr |-> a]      an array            *)
(*   [obj |-> m]       an object; m is a set of <<key, value>> pairs       *)
(* The text of a JSON column is [json |-> v], the serialisation of v, or   *)
(* [raw |-> s], a text s that is not JSON.                                 *)
(***************************************************************************)
EXTENDS Integers, Sequences, FiniteSets

VARIABLES
    table,      \* the rows of "memories", in storage (rowid) order
    clock,      \* the wall clock in milliseconds, as new Date() reads it
    nextId,     \* the number of ids uuidv4() has handed out, plus one
    deleted,    \* history: the ids for which deleteMemory returned true
    calls,      \* the number of addMemory, updateMemory and deleteMemory calls made
    last,       \* the last call: its name, input and result
    inflight,   \* for each caller of the same database file, the call it is
                \* in between two of its statements
    srv         \* startContextMemoryServer: its closure's variables, the
                \* shutdown() runs under way and the calls made on its objects

vars == <<table, clock, nextId, deleted, calls, last, inflight, srv>>

\* ----------------------------------------------------------------- bounds

\* the writing calls (add, update, delete) of one run, and the clock's range
MaxCalls == 3
MaxTime == 1

\* the longest tag sequence handed to normalizeTags on its own
MaxTags == 4

\* the signals, transport events and shutdown() calls a started server gets
MaxEvents == 3

\* ------------------------------------------------------------- JS values

Undefined == [undef |-> TRUE]
Null == [null |-> TRUE]
NaN == [nan |-> TRUE]
Num(n) == [num |-> n]
Half(n) == [half |-> n]
Str(s) == [str |-> s]
Arr(a) == [arr |-> a]
Obj(m) == [obj |-> m]

IsUndefined(v) == "undef" \in DOMAIN v
IsNull(v) == "null" \in DOMAIN v
IsNum(v) == "num" \in DOMAIN v
IsHalf(v) == "half" \in DOMAIN v
IsNaN(v) == "nan" \in DOMAIN v
IsStr(v) == "str" \in DOMAIN v
IsArr(v) == "arr" \in DOMAIN v
IsObj(v) == "obj" \in DOMAIN v

\* typeof v === "number": NaN is a number too
TypeofNumber(v) == IsNum(v) \/ IsNaN(v)

\* v ?? d
Coalesce(v, d) == IF IsUndefined(v) \/ IsNull(v) THEN d ELSE v

\* ---------------------------------------------------------------- strings

Whitespace == {" "}

LowerChar(c) ==
    CASE c = "W" -> "w"
      [] c = "U" -> "u"
      [] c = "B" -> "b"
      [] c = "A" -> "a"
      [] c = "X" -> "x"
      [] c = "F" -> "f"
      [] OTHER -> c

\* String.prototype.toLowerCase
ToLowerCase(s) == [i \in DOMAIN s |-> LowerChar(s[i])]

RECURSIVE TrimStart(_)
TrimStart(s) ==
    IF s # <<>> /\ Head(s) \in Whitespace THEN TrimStart(Tail(s)) ELSE s

RECURSIVE TrimEnd(_)
TrimEnd(s) ==
    IF s # <<>> /\ s[Len(s)] \in Whitespace
    THEN TrimEnd(SubSeq(s, 1, Len(s) - 1))
    ELSE s

\* String.prototype.trim
Trim(s) == TrimEnd(TrimStart(s))

\* ----------------------------------------------------------- normalizeTags

\* a map that leaves every tag as it is
MapTrimNone(ts) == ts

\* tags.map(trim)
RECURSIVE MapTrim(_)
MapTrim(ts) ==
    IF ts = <<>> THEN <<>> ELSE <<Trim(Head(ts))>> \o MapTrim(Tail(ts))

\* A filter that keeps every non-empty tag: the case-insensitive
\* de-duplication is left out.
RECURSIVE FilterSeenNoDedupe(_, _)
FilterSeenNoDedupe(ts, seen) ==
    IF ts = <<>> THEN <<>>
    ELSE IF Head(ts) = <<>>
         THEN FilterSeenNoDedupe(Tail(ts), seen)
         ELSE <<Head(ts)>> \o FilterSeenNoDedupe(Tail(ts), seen)

\* .filter((tag) => ...) with the closure's set "seen"
RECURSIVE FilterSeen(_, _)
FilterSeen(ts, seen) ==
    IF ts = <<>> THEN <<>>
    ELSE LET tag == Head(ts)
             lower == ToLowerCase(tag)
         IN  IF tag = <<>> THEN FilterSeen(Tail(ts), seen)
             ELSE IF lower \in seen THEN FilterSeen(Tail(ts), seen)
             ELSE <<tag>> \o FilterSeen(Tail(ts), seen \union {lower})

\* normalizeTags(tags): tags is undefined, null or an array of strings
NormalizeTags(tags) ==
    IF ~IsArr(tags) \/ Len(tags.arr) = 0 THEN <<>>
    ELSE FilterSeen(MapTrim(tags.arr), {})

\* ------------------------------------------------------------------- JSON

\* What JSON.stringify keeps of an object's properties: those whose value
\* is undefined are dropped.
JsonProps(m) == {p \in m : ~IsUndefined(p[2])}

\* JSON.stringify(v) for an array of strings or an object of scalars
JsonStringify(v) ==
    IF IsObj(v) THEN [json |-> Obj(JsonProps(v.obj))] ELSE [json |-> v]

\* serializeJson always writes the empty object
SerializeJsonEmpty(value) == JsonStringify(Obj({}))

\* serializeJson(value)
SerializeJson(value) == JsonStringify(Coalesce(value, Obj({})))

IsJsonText(text) == "json" \in DOMAIN text

\* parseJson(value, fallback): !value is true of the empty string; a text
\* JSON.parse throws on gives the fallback
ParseJson(text, fallback) ==
    IF ~IsJsonText(text) THEN fallback ELSE text.json

\* --------------------------------------------------------------- importance

Min2(a, b) == IF a < b THEN a ELSE b
Max2(a, b) == IF a > b THEN a ELSE b

\* twice the number v, for comparing integers with numbers n + 1/2
Twice(v) == IF IsHalf(v) THEN 2 * v.half + 1 ELSE 2 * v.num

\* Math.max(a, b) and Math.min(a, b)
MathMax(a, b) == IF Twice(a) >= Twice(b) THEN a ELSE b
MathMin(a, b) == IF Twice(a) <= Twice(b) THEN a ELSE b

\* A clamp that forgets the lower bound
ClampUpperOnly(x) == IF IsNaN(x) THEN NaN ELSE Num(Min2(10, x.num))

\* Math.max(0, Math.min(10, x)) for a value x with typeof x === "number"
Clamp(x) == IF IsNaN(x) THEN NaN ELSE Num(Max2(0, Min2(10, x.num)))

\* typeof v === "number" ? Math.max(0, Math.min(10, v)) : null
ClampOrNull(v) == IF TypeofNumber(v) THEN Clamp(v) ELSE Null

\* How SQLite stores a bound number: NaN is stored as NULL
BindNumber(v) == IF IsNaN(v) THEN Null ELSE v

\* ------------------------------------------------------------------ inputs

\* "Wk" and "wk" stand for the tags "Work" and "work", "Ur" and "ur" for
\* "Urgent" and "urgent"
sWork == <<"W", "k">>
sWorkLower == <<"w", "k">>
sUrgent == <<"U", "r">>
sUrgentLower == <<"u", "r">>
sBar == <<"B">>
sBarPadded == <<" ", "B", " ">>
sBlank == <<" ">>
sEmpty == <<>>
sX == <<"m", " ", "X">>
sY == <<"A", "b">>
sT1 == <<"a", "b">>
sT2 == <<"T">>

MetaK == Obj({<<"k", Num(1)>>})

\* MemoryCreateInput values
CreateInputs == {
    [title |-> Undefined, content |-> Str(sX), importance |-> Num(20),
     tags |-> Arr(<<sWork, sWorkLower, sUrgent>>), metadata |-> Undefined],
    [title |-> Str(sT1), content |-> Str(sY), importance |-> Undefined,
     tags |-> Arr(<<sBarPadded, sEmpty, sBlank>>), metadata |-> MetaK] }

\* The ids a caller passes: those uuidv4() has handed out (1, 2, ...), and
\* 0, which stands for an id that was never handed out.
CallerIds(n) == 0 .. (n - 1)

\* ------------------------------------------------------------------ the table

RowIndex(t, id) == {i \in DOMAIN t : t[i].id = id}
HasRow(t, id) == RowIndex(t, id) # {}
RowOf(t, id) == t[CHOOSE i \in DOMAIN t : t[i].id = id]

RECURSIVE RemoveRow(_, _)
RemoveRow(t, id) ==
    IF t = <<>> THEN <<>>
    ELSE IF Head(t).id = id THEN RemoveRow(Tail(t), id)
    ELSE <<Head(t)>> \o RemoveRow(Tail(t), id)

\* ------------------------------------------------------------------ mapRow

\* Number(text) for the texts the importance column is given here: a
\* hexadecimal literal is read as a number, the empty string as 0, and a
\* text that is no numeric literal as NaN
NumberOfText(s) ==
    CASE s = <<"0", "x", "1", "0">> -> Num(16)
      [] s = <<>> -> Num(0)
      [] OTHER -> NaN

\* row.importance as mapRow returns it
MapImportance(v) ==
    IF TypeofNumber(v) THEN Clamp(v)
    ELSE IF ~IsNull(v) /\ ~IsUndefined(v) THEN NumberOfText(v.str)
    ELSE Null

\* mapRow(row)
MapRow(row) ==
    [id |-> row.id,
     title |-> Coalesce(row.title, Null),
     content |-> row.content,
     importance |-> MapImportance(row.importance),
     tags |-> NormalizeTags(ParseJson(row.tags, Arr(<<>>))),
     metadata |-> ParseJson(row.metadata, Obj({})),
     createdAt |-> row.created_at,
     updatedAt |-> row.updated_at]

\* ------------------------------------------------------------------ results

NotFound == [kind |-> "null"]
Found(rec) == [kind |-> "rec", rec |-> rec]
Threw == [kind |-> "throw"]

\* ------------------------------------------------------------------ addMemory

\* the row INSERTed by addMemory
AddRow(id, input, now) ==
    [id |-> id,
     title |-> Coalesce(input.title, Null),
     content |-> input.content,
     importance |-> BindNumber(ClampOrNull(input.importance)),
     tags |-> JsonStringify(Arr(NormalizeTags(input.tags))),
     metadata |-> SerializeJson(input.metadata),
     created_at |-> now,
     updated_at |-> now]

\* the record addMemory returns
AddResult(id, input, now) ==
    [id |-> id,
     title |-> Coalesce(input.title, Null),
     content |-> input.content,
     importance |-> ClampOrNull(input.importance),
     tags |-> NormalizeTags(input.tags),
     metadata |-> Coalesce(input.metadata, Obj({})),
     createdAt |-> now,
     updatedAt |-> now]

AddMemory ==
    /\ calls < MaxCalls
    /\ \E input \in CreateInputs :
         /\ table' = Append(table, AddRow(nextId, input, clock))
         /\ last' = [op |-> "add", id |-> nextId, input |-> input,
                     result |-> Found(AddResult(nextId, input, clock))]
    /\ nextId' = nextId + 1
    /\ calls' = calls + 1
    /\ UNCHANGED <<clock, deleted, inflight, srv>>

\* ------------------------------------------------------------------ getMemory

\* getMemory(id) on the table t
GetResult(t, id) == IF HasRow(t, id) THEN Found(MapRow(RowOf(t, id))) ELSE NotFound

GetMemory ==
    /\ \E id \in CallerIds(nextId) :
         last' = [op |-> "get", id |-> id, result |-> GetResult(table, id)]
    /\ UNCHANGED <<table, clock, nextId, deleted, calls, inflight, srv>>

\* ------------------------------------------------------------------ listMemories

DefaultLimit == 50
MinLimit == 1
MaxLimit == 200
DefaultOffset == 0

NoFilters ==
    [search |-> Undefined, tags |-> Undefined, minImportance |-> Undefined,
     maxImportance |-> Undefined, limit |-> Undefined, offset |-> Undefined,
     before |-> Undefined, after |-> Undefined]

\* MemoryFilters values; before and after are timestamps, written as numbers
ListInputs == {
    NoFilters,
    [NoFilters EXCEPT !.tags = Arr(<<sUrgentLower>>), !.minImportance = Num(5)],
    [NoFilters EXCEPT !.tags = Arr(<<sWork, sBlank, sUrgent>>),
                      !.maxImportance = Num(10)],
    [NoFilters EXCEPT !.tags = Arr(<<sUrgent, sBar>>)],
    [NoFilters EXCEPT !.limit = Num(1)],
    [NoFilters EXCEPT !.limit = Num(0), !.offset = Num(1)],
    [NoFilters EXCEPT !.search = Str(<<" ", "x">>), !.offset = Num(-1),
                      !.after = Num(1)],
    [NoFilters EXCEPT !.search = Str(sBlank), !.limit = Num(300),
                      !.before = Num(0)],
    [NoFilters EXCEPT !.search = Str(<<"m", "_", "X">>)],
    [NoFilters EXCEPT !.limit = Half(2)],
    [NoFilters EXCEPT !.minImportance = Num(10), !.maxImportance = Num(10)],
    [NoFilters EXCEPT !.minImportance = Num(0)] }

\* s LIKE p in SQLite: % matches any run of characters, _ any one character,
\* and letters match without regard to case
RECURSIVE Like(_, _)
Like(p, s) ==
    IF p = <<>> THEN s = <<>>
    ELSE IF Head(p) = "%"
         THEN Like(Tail(p), s) \/ (s # <<>> /\ Like(p, Tail(s)))
    ELSE IF Head(p) = "_"
         THEN s # <<>> /\ Like(Tail(p), Tail(s))
    ELSE /\ s # <<>>
         /\ LowerChar(Head(p)) = LowerChar(Head(s))
         /\ Like(Tail(p), Tail(s))

\* search && search.trim()
HasSearch(f) == IsStr(f.search) /\ f.search.str # <<>> /\ Trim(f.search.str) # <<>>

\* the tags the tag clauses are built from: one clause for each
FilterTags(f) ==
    IF IsArr(f.tags) /\ Len(f.tags.arr) > 0 THEN NormalizeTags(f.tags) ELSE <<>>

\* whereClauses and params as listMemories builds them from the filters: a
\* field is Undefined when its clause is not pushed.  params.search is
\* `%${search.trim()}%`; before and after are pushed when truthy.
WhereParams(f) ==
    [search |-> IF HasSearch(f)
                THEN Str(<<"%">> \o Trim(f.search.str) \o <<"%">>)
                ELSE Undefined,
     tags |-> FilterTags(f),
     minImportance |-> IF TypeofNumber(f.minImportance) THEN f.minImportance
                       ELSE Undefined,
     maxImportance |-> IF TypeofNumber(f.maxImportance) THEN f.maxImportance
                       ELSE Undefined,
     before |-> IF IsNum(f.before) THEN f.before ELSE Undefined,
     after |-> IF IsNum(f.after) THEN f.after ELSE Undefined]

\* (title LIKE @search OR content LIKE @search); a NULL title matches nothing
SearchClause(row, pattern) ==
    \/ IsStr(row.title) /\ Like(pattern, row.title.str)
    \/ Like(pattern, row.content.str)

\* EXISTS (SELECT 1 FROM json_each(memories.tags) WHERE value = @tag), for a
\* row whose tags column holds a JSON array; = on TEXT compares byte by byte
TagClause(row, tag) ==
    \E i \in DOMAIN row.tags.json.arr : row.tags.json.arr[i] = tag

\* json_each raises "malformed JSON" on a text that is not JSON
TagClauseRaises(row, q) == q.tags # <<>> /\ ~IsJsonText(row.tags)

\* a comparison that reads NULL as 0
ImportanceGeNullAsZero(v, m) ==
    IF IsNum(v) THEN v.num >= m ELSE IF IsNull(v) THEN 0 >= m ELSE IsStr(v)

\* importance > @minImportance: a bound that is not inclusive
ImportanceGt(v, m) == IF IsNum(v) THEN v.num > m ELSE IsStr(v)

\* importance >= @minImportance: NULL compares to nothing, and a TEXT value
\* is greater than every number
ImportanceGe(v, m) == IF IsNum(v) THEN v.num >= m ELSE IsStr(v)

\* importance <= @maxImportance
ImportanceLe(v, m) == IsNum(v) /\ v.num <= m

\* the clauses other than the tag clauses
OtherClauses(row, q) ==
    /\ IsStr(q.search) => SearchClause(row, q.search.str)
    /\ IsNum(q.minImportance) => ImportanceGe(row.importance, q.minImportance.num)
    /\ IsNum(q.maxImportance) => ImportanceLe(row.importance, q.maxImportance.num)
    /\ IsNum(q.before) => row.updated_at <= q.before.num
    /\ IsNum(q.after) => row.updated_at >= q.after.num

\* a WHERE clause whose tag clauses are joined by OR
WhereAnyTag(row, q) ==
    /\ OtherClauses(row, q)
    /\ ~TagClauseRaises(row, q)
    /\ q.tags # <<>> => \E k \in DOMAIN q.tags : TagClause(row, q.tags[k])

\* the WHERE clause on a row: the clauses joined by AND
Where(row, q) ==
    /\ OtherClauses(row, q)
    /\ ~TagClauseRaises(row, q)
    /\ \A k \in DOMAIN q.tags : TagClause(row, q.tags[k])

\* A statement with this WHERE clause raises when json_each is evaluated on
\* a row whose tags are not JSON: it must be on a row the other clauses
\* keep, and may be, as the query plan has it, on a row they exclude.
WhereMustRaise(t, q) ==
    \E i \in DOMAIN t : TagClauseRaises(t[i], q) /\ OtherClauses(t[i], q)
WhereMayRaise(t, q) ==
    \E i \in DOMAIN t : TagClauseRaises(t[i], q)

\* const limitSafe = Math.min(Math.max(limit, 1), 200)
LimitSafe(f) ==
    MathMin(MathMax(IF IsUndefined(f.limit) THEN Num(DefaultLimit) ELSE f.limit,
                    Num(MinLimit)),
            Num(MaxLimit))

\* const offsetSafe = Math.max(offset, 0)
OffsetSafe(f) ==
    MathMax(IF IsUndefined(f.offset) THEN Num(DefaultOffset) ELSE f.offset, Num(0))

\* LIMIT @limit OFFSET @offset with a bound number that is no integer: the
\* statement raises "datatype mismatch"
LimitOffsetRaises(f) == ~IsNum(LimitSafe(f)) \/ ~IsNum(OffsetSafe(f))

\* the rows of t that satisfy WHERE, in storage order
RECURSIVE SelectWhere(_, _)
SelectWhere(t, q) ==
    IF t = <<>> THEN <<>>
    ELSE IF Where(Head(t), q) THEN <<Head(t)>> \o SelectWhere(Tail(t), q)
    ELSE SelectWhere(Tail(t), q)

\* r put into a sequence ordered by updated_at DESC, behind its equals
RECURSIVE InsertDesc(_, _)
InsertDesc(r, sorted) ==
    IF sorted = <<>> THEN <<r>>
    ELSE IF Head(sorted).updated_at >= r.updated_at
         THEN <<Head(sorted)>> \o InsertDesc(r, Tail(sorted))
    ELSE <<r>> \o sorted

\* no ORDER BY: the rows in storage order
OrderByNothing(t) == t

\* ORDER BY updated_at DESC; rows with equal updated_at stay in storage order
RECURSIVE OrderByUpdatedDesc(_)
OrderByUpdatedDesc(t) ==
    IF t = <<>> THEN <<>>
    ELSE InsertDesc(t[Len(t)], OrderByUpdatedDesc(SubSeq(t, 1, Len(t) - 1)))

\* LIMIT @limit OFFSET @offset
LimitOffset(s, limit, offset) ==
    SubSeq(s, offset + 1, Min2(Len(s), offset + limit))

\* SELECT * FROM memories WHERE ... ORDER BY updated_at DESC LIMIT .. OFFSET ..
PageQuery(t, q, limit, offset) ==
    LimitOffset(OrderByUpdatedDesc(SelectWhere(t, q)), limit, offset)

\* SELECT COUNT(*) as count FROM memories WHERE ...
RECURSIVE CountQuery(_, _)
CountQuery(t, q) ==
    IF t = <<>> THEN 0
    ELSE (IF Where(Head(t), q) THEN 1 ELSE 0) + CountQuery(Tail(t), q)

\* rows.map((row) => this.mapRow(row))
RECURSIVE MapRows(_)
MapRows(rows) ==
    IF rows = <<>> THEN <<>> ELSE <<MapRow(Head(rows))>> \o MapRows(Tail(rows))

\* a result whose total counts the rows of the page
ListResultPageTotal(t, f) ==
    LET q == WhereParams(f)
        rows == PageQuery(t, q, LimitSafe(f).num, OffsetSafe(f).num)
    IN  [kind |-> "list", items |-> MapRows(rows), total |-> Len(rows),
         limit |-> LimitSafe(f).num, offset |-> OffsetSafe(f).num]

\* what listMemories(filters) returns when no statement raises
ListResult(t, f) ==
    LET q == WhereParams(f)
    IN  [kind |-> "list",
         items |-> MapRows(PageQuery(t, q, LimitSafe(f).num, OffsetSafe(f).num)),
         total |-> CountQuery(t, q),
         limit |-> LimitSafe(f).num,
         offset |-> OffsetSafe(f).num]

\* the outcomes of listMemories(filters) on the table t
ListOutcomes(t, f) ==
    LET q == WhereParams(f)
    IN  IF LimitOffsetRaises(f) \/ WhereMustRaise(t, q) THEN {Threw}
        ELSE IF WhereMayRaise(t, q) THEN {Threw, ListResult(t, f)}
        ELSE {ListResult(t, f)}

ListMemories ==
    /\ \E f \in ListInputs :
         \E r \in ListOutcomes(table, f) :
            last' = [op |-> "list", filters |-> f, result |-> r]
    /\ UNCHANGED <<table, clock, nextId, deleted, calls, inflight, srv>>

\* ------------------------------------------------------------------ updateMemory

NoChange ==
    [title |-> Undefined, content |-> Undefined, importance |-> Undefined,
     tags |-> Undefined, metadata |-> Undefined]

\* MemoryUpdateInput values, without the id
UpdateInputs == {
    [NoChange EXCEPT !.title = Str(sT2)],
    [NoChange EXCEPT !.title = Null, !.importance = Null],
    [NoChange EXCEPT !.tags = Null, !.metadata = Null],
    [NoChange EXCEPT !.content = Str(sY), !.importance = Num(-3),
                     !.tags = Arr(<<sUrgentLower, sBlank, sUrgent>>),
                     !.metadata = MetaK] }

NextTitle(existing, input) ==
    IF ~IsUndefined(input.title) THEN input.title ELSE existing.title
NextContent(existing, input) == Coalesce(input.content, existing.content)
NextImportance(existing, input) ==
    IF ~IsUndefined(input.importance) THEN input.importance ELSE existing.importance

\* tags: null read as tags left out
NextTagsNullKeeps(existing, input) ==
    IF IsArr(input.tags) THEN NormalizeTags(input.tags) ELSE existing.tags

NextTags(existing, input) ==
    IF ~IsUndefined(input.tags)
    THEN NormalizeTags(IF IsNull(input.tags) THEN Undefined ELSE input.tags)
    ELSE existing.tags
NextMetadata(existing, input) ==
    IF ~IsUndefined(input.metadata) THEN Coalesce(input.metadata, Obj({}))
    ELSE existing.metadata

\* an UPDATE that writes only the fields the input names and gives the
\* others their column defaults
UpdateRowDefaults(row, existing, input, now) ==
    [row EXCEPT
        !.title = IF IsUndefined(input.title) THEN Null ELSE input.title,
        !.content = NextContent(existing, input),
        !.importance = BindNumber(ClampOrNull(input.importance)),
        !.tags = JsonStringify(Arr(NormalizeTags(input.tags))),
        !.metadata = SerializeJson(input.metadata),
        !.updated_at = now]

\* an UPDATE that also sets created_at
UpdateRowTouchesCreated(row, existing, input, now) ==
    [row EXCEPT
        !.title = NextTitle(existing, input),
        !.content = NextContent(existing, input),
        !.importance = BindNumber(ClampOrNull(NextImportance(existing, input))),
        !.tags = JsonStringify(Arr(NextTags(existing, input))),
        !.metadata = SerializeJson(NextMetadata(existing, input)),
        !.created_at = now,
        !.updated_at = now]

\* the row as the UPDATE statement leaves it
UpdateRow(row, existing, input, now) ==
    [row EXCEPT
        !.title = NextTitle(existing, input),
        !.content = NextContent(existing, input),
        !.importance = BindNumber(ClampOrNull(NextImportance(existing, input))),
        !.tags = JsonStringify(Arr(NextTags(existing, input))),
        !.metadata = SerializeJson(NextMetadata(existing, input)),
        !.updated_at = now]

\* the record updateMemory returns
UpdateResult(existing, input, now) ==
    [existing EXCEPT
        !.title = Coalesce(NextTitle(existing, input), Null),
        !.content = NextContent(existing, input),
        !.importance = ClampOrNull(NextImportance(existing, input)),
        !.tags = NextTags(existing, input),
        !.metadata = NextMetadata(existing, input),
        !.updatedAt = now]

\* an update that inserts the row when the id is unknown
UpdateRowsUpsert(t, id, input, now) ==
    IF HasRow(t, id)
    THEN [i \in DOMAIN t |->
            IF t[i].id = id THEN UpdateRow(t[i], MapRow(t[i]), input, now) ELSE t[i]]
    ELSE Append(t, [id |-> id, title |-> Coalesce(input.title, Null),
                    content |-> Coalesce(input.content, Str(<<>>)),
                    importance |-> BindNumber(ClampOrNull(input.importance)),
                    tags |-> JsonStringify(Arr(NormalizeTags(input.tags))),
                    metadata |-> SerializeJson(input.metadata),
                    created_at |-> now, updated_at |-> now])

\* the table after updateMemory(input): nothing is written when getMemory
\* finds no row; UPDATE ... WHERE id = @id keeps the row's place
UpdateRows(t, id, input, now) ==
    IF ~HasRow(t, id) THEN t
    ELSE [i \in DOMAIN t |->
            IF t[i].id = id THEN UpdateRow(t[i], MapRow(t[i]), input, now) ELSE t[i]]

\* what updateMemory returns
UpdateReturn(t, id, input, now) ==
    IF ~HasRow(t, id) THEN NotFound
    ELSE Found(UpdateResult(MapRow(RowOf(t, id)), input, now))

UpdateMemory ==
    /\ calls < MaxCalls
    /\ \E id \in CallerIds(nextId), input \in UpdateInputs :
         /\ table' = UpdateRows(table, id, input, clock)
         /\ last' = [op |-> "update", id |-> id, input |-> input,
                     before |-> GetResult(table, id),
                     result |-> UpdateReturn(table, id, input, clock)]
    /\ calls' = calls + 1
    /\ UNCHANGED <<clock, nextId, deleted, inflight, srv>>

\* ------------------------------------------------------------------ deleteMemory

\* a DELETE that reports its change and leaves the row
DeleteRowsKeep(t, id) == t

\* DELETE FROM memories WHERE id = ?
DeleteRows(t, id) == RemoveRow(t, id)

DeleteMemory ==
    /\ calls < MaxCalls
    /\ \E id \in CallerIds(nextId) :
         /\ table' = DeleteRows(table, id)
         /\ last' = [op |-> "delete", id |-> id, ok |-> HasRow(table, id),
                     first |-> id \notin deleted]
         /\ deleted' = IF HasRow(table, id) THEN deleted \union {id} ELSE deleted
    /\ calls' = calls + 1
    /\ UNCHANGED <<clock, nextId, inflight, srv>>

\* ------------------------------------------------------------------ the clock

Tick ==
    /\ clock < MaxTime
    /\ clock' = clock + 1
    /\ last' = [op |-> "tick"]
    /\ UNCHANGED <<table, nextId, deleted, calls, inflight, srv>>

\* new Date() reads the system's wall clock, which is not monotonic: it
\* reads earlier than before after the system time has been set back
ClockSetBack ==
    /\ clock > 0
    /\ clock' = clock - 1
    /\ last' = [op |-> "setback"]
    /\ UNCHANGED <<table, nextId, deleted, calls, inflight, srv>>

\* ------------------------------------------------------------------ callers of one database file

\* The processes that have opened the same database file.  Every statement
\* is its own transaction, so the statements of one call may have those of
\* another process between them.
Callers == {1, 2}

Idle == [op |-> "idle"]
NoneInFlight == [c \in Callers |-> Idle]

\* startContextMemoryServer has not been called
NotStarted == [state |-> "none"]

\* MemoryUpdateInput values of the concurrent callers: one sets the title
\* only, one the content only, one clears the tags
ConcurrentUpdateInputs == {
    [NoChange EXCEPT !.title = Str(sT2)],
    [NoChange EXCEPT !.content = Str(sY)],
    [NoChange EXCEPT !.tags = Null] }

\* UPDATE memories SET ... WHERE id = @id with the values computed from the
\* record read before: a statement that changes no row when the id has none
UpdateStatement(t, id, existing, input, now) ==
    [i \in DOMAIN t |->
        IF t[i].id = id THEN UpdateRow(t[i], existing, input, now) ELSE t[i]]

\* updateMemory up to its read: const existing = this.getMemory(input.id),
\* and the return of null when there is none
UpdateRead(c) ==
    /\ calls < MaxCalls
    /\ inflight[c] = Idle
    /\ \E id \in CallerIds(nextId), input \in ConcurrentUpdateInputs :
         IF HasRow(table, id)
         THEN /\ inflight' = [inflight EXCEPT ![c] =
                     [op |-> "update", id |-> id, input |-> input,
                      existing |-> MapRow(RowOf(table, id))]]
              /\ last' = [op |-> "update.read", caller |-> c, id |-> id]
         ELSE /\ last' = [op |-> "update", caller |-> c, id |-> id,
                          input |-> input, before |-> NotFound,
                          atWrite |-> NotFound, result |-> NotFound]
              /\ UNCHANGED inflight
    /\ calls' = calls + 1
    /\ UNCHANGED <<table, clock, nextId, deleted, srv>>

\* updateMemory from its UPDATE statement to its return
UpdateWrite(c) ==
    /\ inflight[c].op = "update"
    /\ LET u == inflight[c]
       IN  /\ table' = UpdateStatement(table, u.id, u.existing, u.input, clock)
           /\ last' = [op |-> "update", caller |-> c, id |-> u.id,
                       input |-> u.input, before |-> Found(u.existing),
                       atWrite |-> GetResult(table, u.id),
                       result |-> Found(UpdateResult(u.existing, u.input, clock))]
    /\ inflight' = [inflight EXCEPT ![c] = Idle]
    /\ UNCHANGED <<clock, nextId, deleted, calls, srv>>

\* MemoryFilters values of the concurrent callers
ConcurrentListInputs == {NoFilters, [NoFilters EXCEPT !.offset = Num(1)]}

\* listMemories up to its page statement, and its failure when that raises
ListPage(c) ==
    /\ calls < MaxCalls
    /\ inflight[c] = Idle
    /\ \E f \in ConcurrentListInputs :
         IF LimitOffsetRaises(f) \/ WhereMustRaise(table, WhereParams(f))
         THEN /\ last' = [op |-> "list", caller |-> c, filters |-> f,
                          result |-> Threw]
              /\ UNCHANGED inflight
         ELSE /\ inflight' = [inflight EXCEPT ![c] =
                     [op |-> "list", filters |-> f,
                      rows |-> PageQuery(table, WhereParams(f),
                                         LimitSafe(f).num, OffsetSafe(f).num)]]
              /\ last' = [op |-> "list.page", caller |-> c]
    /\ calls' = calls + 1
    /\ UNCHANGED <<table, clock, nextId, deleted, srv>>

\* listMemories from its count statement to its return
ListCount(c) ==
    /\ inflight[c].op = "list"
    /\ LET l == inflight[c]
           q == WhereParams(l.filters)
       IN  last' = [op |-> "list", caller |-> c, filters |-> l.filters,
                    result |->
                        IF WhereMustRaise(table, q) THEN Threw
                        ELSE [kind |-> "list",
                              items |-> MapRows(l.rows),
                              total |-> CountQuery(table, q),
                              limit |-> LimitSafe(l.filters).num,
                              offset |-> OffsetSafe(l.filters).num]]
    /\ inflight' = [inflight EXCEPT ![c] = Idle]
    /\ UNCHANGED <<table, clock, nextId, deleted, calls, srv>>

\* ------------------------------------------------------------------ out-of-band writes

sNotJson == <<"{">>
sHex16 == <<"0", "x", "1", "0">>
sAbc == <<"a", "b", "c">>

\* What another writer of the database file may leave in a column: an
\* importance outside [0,10], a TEXT in the importance column (INTEGER
\* affinity keeps a text that is no decimal number as TEXT), tags that are
\* JSON but not normalised, and tags or metadata that are not JSON.
OutOfBandWrites == {
    [column |-> "importance", value |-> Num(50)],
    [column |-> "importance", value |-> Str(sHex16)],
    [column |-> "importance", value |-> Str(sAbc)],
    [column |-> "tags", value |-> [json |-> Arr(<<sWork, sWorkLower>>)]],
    [column |-> "tags", value |-> [raw |-> sNotJson]],
    [column |-> "metadata", value |-> [raw |-> sNotJson]] }

WriteColumn(row, w) ==
    CASE w.column = "importance" -> [row EXCEPT !.importance = w.value]
      [] w.column = "tags" -> [row EXCEPT !.tags = w.value]
      [] w.column = "metadata" -> [row EXCEPT !.metadata = w.value]

\* UPDATE memories SET <column> = <value> WHERE id = <id>, by another writer
OutOfBandWrite ==
    /\ calls < MaxCalls
    /\ \E i \in DOMAIN table, w \in OutOfBandWrites :
         /\ table' = [table EXCEPT ![i] = WriteColumn(table[i], w)]
         /\ last' = [op |-> "oob", id |-> table[i].id, write |-> w]
    /\ calls' = calls + 1
    /\ UNCHANGED <<clock, nextId, deleted, inflight, srv>>

\* ------------------------------------------------------------------ the tools

MaxTitleLength == 200
MaxTagCount == 25

\* z.string().trim().min(1): the string is trimmed, then has to have a
\* character
ZTrimmedNonEmpty(v) == IsStr(v) /\ Trim(v.str) # <<>>

\* z.array(z.string().trim().min(1))
ZTagArray(v) == IsArr(v) /\ \A i \in DOMAIN v.arr : Trim(v.arr[i]) # <<>>

\* z.number().int().min(0).max(10)
ZImportance(v) == IsNum(v) /\ v.num >= 0 /\ v.num <= 10

\* z.string().trim().min(1).max(200)
ZTitle(v) == ZTrimmedNonEmpty(v) /\ Len(Trim(v.str)) <= MaxTitleLength

\* z.record(z.unknown())
ZRecord(v) == IsObj(v)

\* createMemoryInputSchema accepts args
CreateSchemaAccepts(args) ==
    /\ IsUndefined(args.title) \/ ZTitle(args.title)
    /\ ZTrimmedNonEmpty(args.content)
    /\ IsUndefined(args.importance) \/ ZImportance(args.importance)
    /\ \/ IsUndefined(args.tags)
       \/ ZTagArray(args.tags) /\ Len(args.tags.arr) <= MaxTagCount
    /\ IsUndefined(args.metadata) \/ ZRecord(args.metadata)

\* updateMemoryInputSchema accepts args: every field may be left out, and
\* title, importance, tags and metadata may be null
UpdateSchemaAccepts(args) ==
    /\ IsUndefined(args.title) \/ IsNull(args.title) \/ ZTitle(args.title)
    /\ IsUndefined(args.content) \/ ZTrimmedNonEmpty(args.content)
    /\ IsUndefined(args.importance) \/ IsNull(args.importance)
          \/ ZImportance(args.importance)
    /\ IsUndefined(args.tags) \/ IsNull(args.tags) \/ ZTagArray(args.tags)
    /\ IsUndefined(args.metadata) \/ IsNull(args.metadata) \/ ZRecord(args.metadata)

\* the arguments as the schema hands them to the handler: strings trimmed
ZParsed(args) ==
    [args EXCEPT
        !.title = IF IsStr(@) THEN Str(Trim(@.str)) ELSE @,
        !.content = IF IsStr(@) THEN Str(Trim(@.str)) ELSE @,
        !.tags = IF IsArr(@) THEN Arr(MapTrim(@.arr)) ELSE @]

Alphabet ==
    <<"a", "b", "c", "d", "e", "f", "g", "h", "i", "j", "k", "l", "m",
      "n", "o", "p", "q", "r", "s", "t", "u", "v", "w", "x", "y", "z">>

\* n different tags of one letter each
ManyTags(n) == [i \in 1 .. n |-> <<Alphabet[i]>>]

NoArgs ==
    [title |-> Undefined, content |-> Undefined, importance |-> Undefined,
     tags |-> Undefined, metadata |-> Undefined]

\* arguments of memory.add: 25 tags, 26 tags, and a padded tag
ToolAddArgs == {
    [NoArgs EXCEPT !.content = Str(sX), !.tags = Arr(ManyTags(MaxTagCount))],
    [NoArgs EXCEPT !.content = Str(sX), !.tags = Arr(ManyTags(MaxTagCount + 1))],
    [NoArgs EXCEPT !.title = Str(sT1), !.content = Str(sY),
                   !.importance = Num(10), !.tags = Arr(<<sBarPadded>>)] }

\* arguments of memory.update, without the id: 26 tags, a blank tag, a title
ToolUpdateArgs == {
    [NoArgs EXCEPT !.tags = Arr(ManyTags(MaxTagCount + 1))],
    [NoArgs EXCEPT !.tags = Arr(<<sBlank>>)],
    [NoArgs EXCEPT !.title = Str(sT2)] }

Invalid == [kind |-> "invalid"]

\* the tool memory.add: arguments the schema rejects do not reach the store
ToolAdd ==
    /\ calls < MaxCalls
    /\ \E args \in ToolAddArgs :
         IF CreateSchemaAccepts(args)
         THEN /\ table' = Append(table, AddRow(nextId, ZParsed(args), clock))
              /\ last' = [op |-> "memory.add", id |-> nextId, args |-> args,
                          result |-> Found(AddResult(nextId, ZParsed(args), clock))]
              /\ nextId' = nextId + 1
         ELSE /\ last' = [op |-> "memory.add", args |-> args, result |-> Invalid]
              /\ UNCHANGED <<table, nextId>>
    /\ calls' = calls + 1
    /\ UNCHANGED <<clock, deleted, inflight, srv>>

\* the tool memory.update
ToolUpdate ==
    /\ calls < MaxCalls
    /\ \E id \in CallerIds(nextId), args \in ToolUpdateArgs :
         IF UpdateSchemaAccepts(args)
         THEN /\ table' = UpdateRows(table, id, ZParsed(args), clock)
              /\ last' = [op |-> "memory.update", id |-> id, args |-> args,
                          result |-> UpdateReturn(table, id, ZParsed(args), clock)]
         ELSE /\ last' = [op |-> "memory.update", id |-> id, args |-> args,
                          result |-> Invalid]
              /\ UNCHANGED table
    /\ calls' = calls + 1
    /\ UNCHANGED <<clock, nextId, deleted, inflight, srv>>

\* ------------------------------------------------------------------ startContextMemoryServer

Signals == {"SIGINT", "SIGTERM"}

\* The closure of startContextMemoryServer once it has returned: closing
\* and closed, the state of the promise waitUntilClosed, signalHandlers
\* (handlers) and the listeners the process has for the signals, the place
\* of the shutdown() run that got past its guard, and counts of the calls
\* made: server.close(), transport.close(), runs of finalize's process.off
\* loop.  threw and errorFirst are history: a close has thrown; a transport
\* error came while waitUntilClosed was pending.
Started(enableSignalHandlers) ==
    [state |-> "running",
     closing |-> FALSE,
     closed |-> FALSE,
     wait |-> "pending",
     handlers |-> IF enableSignalHandlers THEN Signals ELSE {},
     listeners |-> IF enableSignalHandlers THEN Signals ELSE {},
     pc |-> "idle",
     serverCloseCalls |-> 0,
     transportCloseCalls |-> 0,
     offRuns |-> 0,
     events |-> 0,
     threw |-> FALSE,
     errorFirst |-> FALSE]

\* finalize(): resolveWait() has no effect on a settled promise
Finalize(s) ==
    IF s.closed THEN s
    ELSE [s EXCEPT !.closed = TRUE,
                   !.offRuns = @ + 1,
                   !.listeners = @ \ s.handlers,
                   !.wait = IF @ = "pending" THEN "resolved" ELSE @]

\* rejectWait(error)
RejectWait(s) ==
    [s EXCEPT !.wait = IF @ = "pending" THEN "rejected" ELSE @,
              !.errorFirst = @ \/ s.wait = "pending"]

\* shutdown(signal) up to its first await: with a signal that of
\* sendLoggingMessage, without one that of server.close()
ShutdownCall(s, withSignal) ==
    IF s.closing THEN s
    ELSE IF withSignal THEN [s EXCEPT !.closing = TRUE, !.pc = "log"]
    ELSE [s EXCEPT !.closing = TRUE, !.pc = "serverClose",
                   !.serverCloseCalls = @ + 1]

\* one more signal, transport event or shutdown() call
Event(s) == [s EXCEPT !.events = @ + 1]

StartServer ==
    /\ srv = NotStarted
    /\ \E enableSignalHandlers \in BOOLEAN : srv' = Started(enableSignalHandlers)
    /\ last' = [op |-> "start"]
    /\ UNCHANGED <<table, clock, nextId, deleted, calls, inflight>>

\* SIGINT or SIGTERM reaches the process of a server started with signal
\* handlers.  process.once takes the listener off before it calls it; a
\* signal the process has no listener for ends the process (node's default).
Signal ==
    /\ srv.state = "running"
    /\ srv.handlers # {}
    /\ srv.events < MaxEvents
    /\ \E sig \in Signals :
         /\ srv' = IF sig \in srv.listeners
                   THEN ShutdownCall([Event(srv) EXCEPT !.listeners = @ \ {sig}], TRUE)
                   ELSE [Event(srv) EXCEPT !.state = "killed"]
         /\ last' = [op |-> sig]
    /\ UNCHANGED <<table, clock, nextId, deleted, calls, inflight>>

\* transport.onerror
TransportError ==
    /\ srv.state = "running"
    /\ srv.events < MaxEvents
    /\ srv' = ShutdownCall(RejectWait(Event(srv)), FALSE)
    /\ last' = [op |-> "transport.onerror"]
    /\ UNCHANGED <<table, clock, nextId, deleted, calls, inflight>>

\* transport.onclose
TransportClosed ==
    /\ srv.state = "running"
    /\ srv.events < MaxEvents
    /\ srv' = Finalize(Event(srv))
    /\ last' = [op |-> "transport.onclose"]
    /\ UNCHANGED <<table, clock, nextId, deleted, calls, inflight>>

\* the shutdown() of the returned object
ExplicitShutdown ==
    /\ srv.state = "running"
    /\ srv.events < MaxEvents
    /\ srv' = ShutdownCall(Event(srv), FALSE)
    /\ last' = [op |-> "shutdown"]
    /\ UNCHANGED <<table, clock, nextId, deleted, calls, inflight>>

\* await server.sendLoggingMessage(...).catch(...) is over, whatever its
\* outcome: server.close() is called
LoggingSettles ==
    /\ srv.state = "running"
    /\ srv.pc = "log"
    /\ srv' = [srv EXCEPT !.pc = "serverClose", !.serverCloseCalls = @ + 1]
    /\ last' = [op |-> "sendLoggingMessage settled"]
    /\ UNCHANGED <<table, clock, nextId, deleted, calls, inflight>>

\* await server.close() is over, resolved or thrown and caught:
\* transport.close() is called
ServerCloseSettles ==
    /\ srv.state = "running"
    /\ srv.pc = "serverClose"
    /\ \E throws \in BOOLEAN :
         /\ srv' = [srv EXCEPT !.pc = "transportClose",
                               !.transportCloseCalls = @ + 1,
                               !.threw = @ \/ throws]
         /\ last' = [op |-> "server.close settled", throws |-> throws]
    /\ UNCHANGED <<table, clock, nextId, deleted, calls, inflight>>

\* await transport.close() is over, resolved or thrown and caught:
\* finalize()
TransportCloseSettles ==
    /\ srv.state = "running"
    /\ srv.pc = "transportClose"
    /\ \E throws \in BOOLEAN :
         /\ srv' = Finalize([srv EXCEPT !.pc = "done", !.threw = @ \/ throws])
         /\ last' = [op |-> "transport.close settled", throws |-> throws]
    /\ UNCHANGED <<table, clock, nextId, deleted, calls, inflight>>

NextShutdown ==
    \/ StartServer
    \/ Signal
    \/ TransportError
    \/ TransportClosed
    \/ ExplicitShutdown
    \/ LoggingSettles
    \/ ServerCloseSettles
    \/ TransportCloseSettles

\* ------------------------------------------------------------------ normalizeTags alone

sFoo == <<"F", "o">>
sFooLower == <<"f", "o">>

\* the tags of the sequences given to normalizeTags: "Fo" and "fo" stand for
\* "Foo" and "foo", " B " for " Bar "
TagChoices == {sFoo, sFooLower, sBarPadded, sEmpty, sBlank}

TagSequences == UNION {[1 .. n -> TagChoices] : n \in 0 .. MaxTags}

\* a caller holds a tag sequence
InitTags ==
    /\ table = <<>>
    /\ clock = 0
    /\ nextId = 1
    /\ deleted = {}
    /\ calls = 0
    /\ \E ts \in TagSequences : last = [op |-> "tags", value |-> ts]
    /\ inflight = NoneInFlight
    /\ srv = NotStarted

\* normalizeTags(value), of the sequence held or of the last result
ApplyNormalizeTags ==
    /\ last.op \in {"tags", "normalizeTags"}
    /\ last' = [op |-> "normalizeTags", input |-> last.value,
                value |-> NormalizeTags(Arr(last.value))]
    /\ UNCHANGED <<table, clock, nextId, deleted, calls, inflight, srv>>

NextTagsOnly == ApplyNormalizeTags

SpecTags == InitTags /\ [][NextTagsOnly]_vars

\* ------------------------------------------------------------------ specification

Init ==
    /\ table = <<>>
    /\ clock = 0
    /\ nextId = 1
    /\ deleted = {}
    /\ calls = 0
    /\ last = [op |-> "init"]
    /\ inflight = NoneInFlight
    /\ srv = NotStarted

Next ==
    \/ AddMemory
    \/ GetMemory
    \/ ListMemories
    \/ UpdateMemory
    \/ DeleteMemory
    \/ Tick

Spec == Init /\ [][Next]_vars

\* The store's calls on single records, without listMemories
NextSingle ==
    \/ AddMemory
    \/ GetMemory
    \/ UpdateMemory
    \/ DeleteMemory
    \/ Tick

SpecSingle == Init /\ [][NextSingle]_vars

\* The store's calls together with another writer of the same database file
NextOOB ==
    \/ AddMemory
    \/ GetMemory
    \/ ListMemories
    \/ UpdateMemory
    \/ DeleteMemory
    \/ Tick
    \/ OutOfBandWrite

SpecOOB == Init /\ [][NextOOB]_vars

\* The store's calls under a wall clock that may be set back between them
NextWallClock ==
    \/ AddMemory
    \/ GetMemory
    \/ ListMemories
    \/ UpdateMemory
    \/ DeleteMemory
    \/ Tick
    \/ ClockSetBack

SpecWallClock == Init /\ [][NextWallClock]_vars

\* Two processes on one database file: the statements of their calls
\* interleave
NextConcurrent ==
    \/ AddMemory
    \/ DeleteMemory
    \/ Tick
    \/ \E c \in Callers : UpdateRead(c)
    \/ \E c \in Callers : UpdateWrite(c)
    \/ \E c \in Callers : ListPage(c)
    \/ \E c \in Callers : ListCount(c)

SpecConcurrent == Init /\ [][NextConcurrent]_vars

\* The promises shutdown() awaits settle, and the event loop then runs what
\* follows the await
SpecShutdown ==
    /\ Init
    /\ [][NextShutdown]_vars
    /\ WF_vars(LoggingSettles)
    /\ WF_vars(ServerCloseSettles)
    /\ WF_vars(TransportCloseSettles)

\* The store behind the tools memory.add and memory.update
NextTools ==
    \/ ToolAdd
    \/ ToolUpdate
    \/ GetMemory
    \/ DeleteMemory
    \/ Tick

SpecTools == Init /\ [][NextTools]_vars

\* ------------------------------------------------------------------ claims

IsCall(op) == last.op = op
Returned == "result" \in DOMAIN last /\ last.result.kind = "rec"
Listed == IsCall("list") /\ last.result.kind = "list"

\* the record a getMemory(id) finds in the current table
Stored(id) == GetResult(table, id).rec

\* C1: right after addMemory(input) returned a record, getMemory of the
\* returned id finds a record equal to it in every field.
C1_RoundTrip ==
    IsCall("add") =>
        /\ GetResult(table, last.result.rec.id).kind = "rec"
        /\ \A field \in DOMAIN last.result.rec :
              Stored(last.result.rec.id)[field] = last.result.rec[field]

\* addMemory was given a title, padded and empty tags and metadata, and
\* returned a record with the normalised tags and that metadata
C1_Witness ==
    /\ IsCall("add")
    /\ last.input.metadata = MetaK
    /\ last.result.rec.tags = <<sBar>>
    /\ last.result.rec.metadata = MetaK
    /\ HasRow(table, last.id)

ScenarioFilters ==
    [NoFilters EXCEPT !.tags = Arr(<<sUrgentLower>>), !.minImportance = Num(5)]

HasTagIgnoringCase(rec, tag) ==
    \E i \in DOMAIN rec.tags : ToLowerCase(rec.tags[i]) = ToLowerCase(tag)

\* C2: listMemories({tags: ["urgent"], minImportance: 5}) returns every
\* stored record that has the tag "urgent" in some casing and an importance
\* of at least 5, such as the record created with tags ["Work", "work",
\* "Urgent"] and importance 20.
C2_TagFilterIgnoresCase ==
    (IsCall("list") /\ last.filters = ScenarioFilters) =>
        /\ last.result.kind = "list"
        /\ \A i \in DOMAIN table :
              LET rec == MapRow(table[i])
              IN  (/\ HasTagIgnoringCase(rec, sUrgentLower)
                   /\ IsNum(rec.importance) /\ rec.importance.num >= 5)
                  => \E j \in DOMAIN last.result.items :
                        last.result.items[j].id = rec.id

IsTitleOnly(input) ==
    /\ ~IsUndefined(input.title)
    /\ IsUndefined(input.content) /\ IsUndefined(input.importance)
    /\ IsUndefined(input.tags) /\ IsUndefined(input.metadata)

OmittedFieldsKept(before, after) ==
    /\ after.content = before.content
    /\ after.importance = before.importance
    /\ after.tags = before.tags
    /\ after.metadata = before.metadata

\* C3 as stated: an updateMemory that supplies only title leaves content,
\* importance, tags and metadata as they were, and the record's updatedAt
\* is later than before the call.
C3_UpdatedAtStrictlyLater ==
    (IsCall("update") /\ IsTitleOnly(last.input) /\ Returned) =>
        /\ OmittedFieldsKept(last.before.rec, last.result.rec)
        /\ OmittedFieldsKept(last.before.rec, Stored(last.id))
        /\ Stored(last.id).updatedAt > last.before.rec.updatedAt

\* C3, amended: an updateMemory that supplies only title leaves content,
\* importance, tags and metadata as they were, in the returned and in the
\* stored record, and sets updatedAt to the clock's reading at the call,
\* which is not earlier than the updatedAt before the call.
C3_PartialUpdate ==
    (IsCall("update") /\ IsTitleOnly(last.input) /\ Returned) =>
        /\ OmittedFieldsKept(last.before.rec, last.result.rec)
        /\ OmittedFieldsKept(last.before.rec, Stored(last.id))
        /\ last.result.rec.title = last.input.title
        /\ Stored(last.id).title = last.input.title
        /\ last.result.rec.updatedAt = clock
        /\ Stored(last.id).updatedAt = clock
        /\ Stored(last.id).updatedAt >= last.before.rec.updatedAt

\* a title-only update of a record that has tags, metadata and an
\* importance, made after the clock has advanced
C3_Witness ==
    /\ IsCall("update") /\ IsTitleOnly(last.input) /\ Returned
    /\ last.before.rec.tags # <<>>
    /\ last.before.rec.metadata = MetaK
    /\ last.before.rec.title # last.result.rec.title
    /\ last.result.rec.updatedAt > last.before.rec.updatedAt

\* C4: an updateMemory with an id that has no row returns null and leaves
\* the table as it was.
C4_UpdateMissingNoEffect ==
    [][(last'.op = "update" /\ calls' = calls + 1 /\ ~HasRow(table, last'.id))
         => (last'.result = NotFound /\ table' = table)]_vars

\* updateMemory returned null while the table holds rows
C4_Witness ==
    /\ IsCall("update")
    /\ last.result = NotFound
    /\ table # <<>>

\* C5: once deleteMemory(id) has returned true, no row has that id, a
\* getMemory(id) returns null and a deleteMemory(id) returns false, whatever
\* calls on other ids came in between.
C5_DeleteFinality ==
    /\ \A id \in deleted : ~HasRow(table, id)
    /\ (IsCall("get") /\ last.id \in deleted) => last.result = NotFound
    /\ (IsCall("delete") /\ ~last.first) => ~last.ok

\* a getMemory of a deleted id, after another record has been created
C5_Witness ==
    /\ IsCall("get")
    /\ last.id \in deleted
    /\ \E i \in DOMAIN table : table[i].id > last.id

PageChoices == {[limit |-> Undefined, offset |-> Undefined],
                [limit |-> Num(1), offset |-> Num(0)],
                [limit |-> Num(1), offset |-> Num(1)],
                [limit |-> Num(2), offset |-> Num(5)]}

\* C6: the total of a listMemories result is the number of stored rows that
\* satisfy the filters, the same whatever limit and offset are passed, and
\* the page holds at most limit items.
C6_PaginationTotal ==
    Listed =>
        /\ last.result.total =
             Cardinality({i \in DOMAIN table :
                            Where(table[i], WhereParams(last.filters))})
        /\ \A pg \in PageChoices :
              ListResult(table, [last.filters EXCEPT !.limit = pg.limit,
                                                     !.offset = pg.offset]).total
                = last.result.total
        /\ Len(last.result.items) <= last.result.limit

\* a list with limit 1 over two matching rows: one item, total 2
C6_Witness ==
    /\ Listed
    /\ last.filters.limit = Num(1)
    /\ Len(last.result.items) = 1
    /\ last.result.total = 2

ClampedInt(x) == IF x < 0 THEN 0 ELSE IF x > 10 THEN 10 ELSE x

\* C7: addMemory and updateMemory, given a number x as importance, store and
\* return min(10, max(0, x)); addMemory without an importance stores and
\* returns null; neither rejects a number.
C7_ImportanceClamped ==
    ((IsCall("add") \/ IsCall("update")) /\ last.result # NotFound) =>
        /\ last.result.kind = "rec"
        /\ IsNum(last.input.importance) =>
              /\ last.result.rec.importance = Num(ClampedInt(last.input.importance.num))
              /\ RowOf(table, last.id).importance
                   = Num(ClampedInt(last.input.importance.num))
        /\ (IsCall("add") /\ IsUndefined(last.input.importance)) =>
              /\ last.result.rec.importance = Null
              /\ RowOf(table, last.id).importance = Null

\* an update with importance -3 has stored 0
C7_Witness ==
    /\ IsCall("update") /\ Returned
    /\ last.input.importance = Num(-3)
    /\ RowOf(table, last.id).importance = Num(0)
    /\ last.result.rec.importance = Num(0)

ImportanceInRange(v) == IsNull(v) \/ (IsNum(v) /\ v.num >= 0 /\ v.num <= 10)

\* C8: whatever the importance column of a row holds, every record
\* getMemory or listMemories returns has an importance that is null or in
\* [0,10], and the read does not fail.
C8_ReadReclamps ==
    /\ IsCall("get") =>
          /\ last.result.kind # "throw"
          /\ last.result.kind = "rec" => ImportanceInRange(last.result.rec.importance)
    /\ Listed =>
          \A j \in DOMAIN last.result.items :
              ImportanceInRange(last.result.items[j].importance)

RecoveredFrom(row, rec) ==
    /\ ~IsJsonText(row.tags) => rec.tags = <<>>
    /\ ~IsJsonText(row.metadata) => rec.metadata = Obj({})

\* the rows with tags that are not JSON are rows the other filters keep, so
\* that json_each is evaluated on them under every query plan
PlanIndependent(t, f) ==
    \A i \in DOMAIN t :
        ~IsJsonText(t[i].tags) => OtherClauses(t[i], WhereParams(f))

\* C9: when the tags or metadata column of a row holds a text that is not
\* JSON, getMemory and listMemories, with any filters, a tags filter
\* included, do not fail, and return such a record with empty tags,
\* respectively empty metadata.  (For listMemories this is stated of the
\* calls whose outcome does not depend on the query plan.)
C9_MalformedJsonRecovered ==
    /\ IsCall("get") => last.result.kind # "throw"
    /\ (IsCall("get") /\ last.result.kind = "rec") =>
          RecoveredFrom(RowOf(table, last.id), last.result.rec)
    /\ (IsCall("list") /\ PlanIndependent(table, last.filters)) =>
          /\ last.result.kind # "throw"
          /\ \A j \in DOMAIN last.result.items :
                RecoveredFrom(RowOf(table, last.result.items[j].id),
                              last.result.items[j])

TagsNormal(ts) ==
    \A i \in DOMAIN ts :
        /\ Trim(ts[i]) # <<>>
        /\ \A j \in DOMAIN ts : j # i => ToLowerCase(ts[i]) # ToLowerCase(ts[j])

\* C10: after any sequence of addMemory and updateMemory calls, the tags of
\* every stored row and of every returned record hold no two entries equal
\* without regard to case and no empty or whitespace-only entry.
C10_TagsInvariant ==
    /\ \A i \in DOMAIN table :
          IsJsonText(table[i].tags) /\ TagsNormal(table[i].tags.json.arr)
    /\ Returned => TagsNormal(last.result.rec.tags)
    /\ Listed => \A j \in DOMAIN last.result.items : TagsNormal(last.result.items[j].tags)

\* an update has replaced the tags ["urgent", " ", "Urgent"] by ["urgent"]
C10_Witness ==
    /\ IsCall("update") /\ Returned
    /\ last.input.tags = Arr(<<sUrgentLower, sBlank, sUrgent>>)
    /\ last.result.rec.tags = <<sUrgentLower>>
    /\ RowOf(table, last.id).tags = [json |-> Arr(<<sUrgentLower>>)]

\* the places of ts whose trimmed tag is not empty and has no earlier tag
\* with the same lower-cased trimmed text
FirstSeen(ts) ==
    {i \in DOMAIN ts :
        /\ Trim(ts[i]) # <<>>
        /\ \A j \in 1 .. (i - 1) :
              ToLowerCase(Trim(ts[j])) # ToLowerCase(Trim(ts[i]))}

\* out holds the trimmed tags of the places in keep, in their order
RECURSIVE IsTrimmedPick(_, _, _, _)
IsTrimmedPick(ts, keep, from, out) ==
    IF from > Len(ts) THEN out = <<>>
    ELSE IF from \in keep
         THEN /\ out # <<>>
              /\ Head(out) = Trim(ts[from])
              /\ IsTrimmedPick(ts, keep, from + 1, Tail(out))
    ELSE IsTrimmedPick(ts, keep, from + 1, out)

\* C11: normalizeTags(t) is the sequence of the trimmed, non-empty tags of
\* t that are the first with their lower-cased text, in their order and
\* casing; ["Foo", "foo", " Bar ", ""] gives ["Foo", "Bar"]; and
\* normalizeTags of a result of normalizeTags is that result.
C11_NormalizeIdempotent ==
    IsCall("normalizeTags") =>
        /\ IsTrimmedPick(last.input, FirstSeen(last.input), 1, last.value)
        /\ last.input = <<sFoo, sFooLower, sBarPadded, sEmpty>>
              => last.value = <<sFoo, sBar>>
        /\ NormalizeTags(Arr(last.value)) = last.value

\* normalizeTags has been applied to ["Foo", "foo", " Bar ", ""]
C11_Witness ==
    /\ IsCall("normalizeTags")
    /\ last.input = <<sFoo, sFooLower, sBarPadded, sEmpty>>
    /\ last.value = <<sFoo, sBar>>

HoldsTag(rec, tag) == \E i \in DOMAIN rec.tags : rec.tags[i] = tag

HoldsAllTags(rec, tags) == \A k \in DOMAIN tags : HoldsTag(rec, tags[k])

\* C12: every record in a listMemories result holds every tag of the
\* filter, normalised as addMemory normalises tags; a stored record that
\* lacks one of them is not in the result.
C12_TagsFilterAnd ==
    Listed =>
        LET wanted == NormalizeTags(last.filters.tags)
        IN  /\ \A j \in DOMAIN last.result.items :
                  HoldsAllTags(last.result.items[j], wanted)
            /\ \A i \in DOMAIN table :
                  ~HoldsAllTags(MapRow(table[i]), wanted) =>
                      \A j \in DOMAIN last.result.items :
                          last.result.items[j].id # table[i].id

\* a list asking for two tags over a table with a record that holds one of
\* them only, and is left out
C12_Witness ==
    /\ Listed
    /\ Len(NormalizeTags(last.filters.tags)) = 2
    /\ \E i \in DOMAIN table :
          /\ \E k \in DOMAIN NormalizeTags(last.filters.tags) :
                HoldsTag(MapRow(table[i]), NormalizeTags(last.filters.tags)[k])
          /\ ~HoldsAllTags(MapRow(table[i]), NormalizeTags(last.filters.tags))
          /\ \A j \in DOMAIN last.result.items :
                last.result.items[j].id # table[i].id

\* the value a field has when it is cleared
Cleared(field) ==
    CASE field = "title" -> Null
      [] field = "importance" -> Null
      [] field = "tags" -> <<>>
      [] field = "metadata" -> Obj({})

\* the fields the input sets to null are cleared in rec, and the fields it
\* leaves out, like id and createdAt, are as in before
ClearedAndKept(before, input, rec) ==
    /\ \A field \in {"title", "importance", "tags", "metadata"} :
          /\ IsNull(input[field]) => rec[field] = Cleared(field)
          /\ IsUndefined(input[field]) => rec[field] = before[field]
    /\ IsUndefined(input.content) => rec.content = before.content
    /\ rec.id = before.id
    /\ rec.createdAt = before.createdAt

\* C13: an updateMemory of an existing record with title: null,
\* importance: null, tags: null or metadata: null returns, and leaves for
\* getMemory, a record with that field null, null, the empty sequence,
\* respectively the empty mapping; the fields the input leaves out, the id
\* and createdAt are as before (updatedAt is the time of the call).
C13_NullClears ==
    (IsCall("update") /\ Returned) =>
        /\ ClearedAndKept(last.before.rec, last.input, last.result.rec)
        /\ ClearedAndKept(last.before.rec, last.input, Stored(last.id))

\* tags: null and metadata: null cleared the tags and metadata of a record
\* that had both, and left its title
C13_Witness ==
    /\ IsCall("update") /\ Returned
    /\ IsNull(last.input.tags) /\ IsNull(last.input.metadata)
    /\ last.before.rec.tags # <<>> /\ last.before.rec.metadata = MetaK
    /\ last.before.rec.title = Str(sT1)
    /\ Stored(last.id).tags = <<>> /\ Stored(last.id).metadata = Obj({})
    /\ Stored(last.id).title = Str(sT1)

\* C14: in every reachable state, every stored row has
\* updated_at >= created_at.
C14_UpdatedNotBeforeCreated ==
    \A i \in DOMAIN table : table[i].updated_at >= table[i].created_at

UniqueIds(t) == \A i, j \in DOMAIN t : t[i].id = t[j].id => i = j

Ids(t) == {t[i].id : i \in DOMAIN t}

\* C15: no two stored rows share an id; a row that is still stored after a
\* call has the created_at it had before it; an addMemory gives its row an
\* id no row has or had; an updateMemory leaves the set of stored ids as it
\* was and returns the id it was given and the createdAt found.
C15_IdentityStable ==
    [][/\ UniqueIds(table')
       /\ \A i \in DOMAIN table : \A j \in DOMAIN table' :
             table'[j].id = table[i].id =>
                 table'[j].created_at = table[i].created_at
       /\ last'.op = "add" =>
             /\ last'.id \notin Ids(table) \union deleted
             /\ last'.result.rec.id = last'.id
             /\ RowOf(table', last'.id).created_at = last'.result.rec.createdAt
       /\ last'.op = "update" =>
             /\ Ids(table') = Ids(table)
             /\ last'.result.kind = "rec" =>
                   /\ last'.result.rec.id = last'.id
                   /\ last'.result.rec.createdAt = last'.before.rec.createdAt
                   /\ GetResult(table', last'.id).rec.createdAt
                        = last'.before.rec.createdAt]_vars

\* a record created at time 0 has been updated at time 1, next to another
\* record, and still has its createdAt
C15_Witness ==
    /\ IsCall("update") /\ Returned
    /\ Len(table) = 2
    /\ RowOf(table, last.id).created_at = 0
    /\ RowOf(table, last.id).updated_at = 1
    /\ last.result.rec.createdAt = 0

\* C16: in every listMemories result, a record placed before another has
\* an updatedAt that is not earlier than the other's.
C16_ListOrdered ==
    Listed =>
        \A j, k \in DOMAIN last.result.items :
            j < k => last.result.items[j].updatedAt >= last.result.items[k].updatedAt

\* a list of two records, the later created and later updated one first
C16_Witness ==
    /\ Listed
    /\ Len(last.result.items) = 2
    /\ last.result.items[1].updatedAt > last.result.items[2].updatedAt
    /\ last.result.items[1].id > last.result.items[2].id

\* term occurs in s, letters compared without regard to case
OccursIn(term, s) ==
    \E i \in 1 .. (Len(s) - Len(term) + 1) :
        ToLowerCase(SubSeq(s, i, i + Len(term) - 1)) = ToLowerCase(term)

OccursInRecord(term, rec) ==
    \/ IsStr(rec.title) /\ OccursIn(term, rec.title.str)
    \/ OccursIn(term, rec.content.str)

\* C17: with a search term that is not blank, the records listed are
\* records in whose title or content the trimmed term occurs, letters
\* compared without regard to case and every character standing for
\* itself; with an empty or blank term the result is that of the same list
\* without a search.
C17_SearchPlainSubstring ==
    Listed =>
        IF HasSearch(last.filters)
        THEN \A j \in DOMAIN last.result.items :
                OccursInRecord(Trim(last.filters.search.str), last.result.items[j])
        ELSE last.result = ListResult(table, [last.filters EXCEPT !.search = Undefined])

\* min(200, max(1, x)) and max(0, x) for an integer x
ClampedLimit(x) == IF x < 1 THEN 1 ELSE IF x > 200 THEN 200 ELSE x
ClampedOffset(x) == IF x < 0 THEN 0 ELSE x

\* C18: listMemories rejects no limit and no offset: it returns a result
\* whose limit is in [1,200] and whose offset is at least 0; the limit is
\* min(200, max(1, requested)), 50 when none is given, and the offset
\* max(0, requested), 0 when none is given.
C18_PaginationClamped ==
    IsCall("list") =>
        /\ last.result.kind = "list"
        /\ last.result.limit \in 1 .. 200
        /\ last.result.offset >= 0
        /\ IsUndefined(last.filters.limit) => last.result.limit = 50
        /\ IsNum(last.filters.limit) =>
              last.result.limit = ClampedLimit(last.filters.limit.num)
        /\ IsUndefined(last.filters.offset) => last.result.offset = 0
        /\ IsNum(last.filters.offset) =>
              last.result.offset = ClampedOffset(last.filters.offset.num)

\* the importance v is a number within the bounds the filters give
WithinBounds(v, f) ==
    /\ IsNum(f.minImportance) => (IsNum(v) /\ f.minImportance.num <= v.num)
    /\ IsNum(f.maxImportance) => (IsNum(v) /\ v.num <= f.maxImportance.num)

OnlyImportanceBounds(f) ==
    f = [NoFilters EXCEPT !.minImportance = f.minImportance,
                          !.maxImportance = f.maxImportance]

\* C19: every record a listMemories with minImportance = lo and/or
\* maxImportance = hi returns has an importance i with lo <= i and i <= hi,
\* and, when these are the only filters, every stored record with such an
\* importance is returned, one whose importance equals a bound included.
C19_ImportanceBoundsInclusive ==
    Listed =>
        /\ \A j \in DOMAIN last.result.items :
              WithinBounds(last.result.items[j].importance, last.filters)
        /\ OnlyImportanceBounds(last.filters) =>
              \A i \in DOMAIN table :
                  WithinBounds(MapRow(table[i]).importance, last.filters) =>
                      \E j \in DOMAIN last.result.items :
                          last.result.items[j].id = table[i].id

\* a list with minImportance 10 and maxImportance 10 over records of
\* importance 10 and 0 has returned the first only
C19_Witness ==
    /\ Listed
    /\ last.filters.minImportance = Num(10) /\ last.filters.maxImportance = Num(10)
    /\ Len(last.result.items) = 1
    /\ last.result.items[1].importance = Num(10)
    /\ \E i \in DOMAIN table : table[i].importance = Num(0)

\* C20: every record stored or returned through memory.add and
\* memory.update, called with arguments their input schemas accept, has at
\* most 25 tags.
C20_AtMost25Tags ==
    /\ \A i \in DOMAIN table : Len(MapRow(table[i]).tags) <= MaxTagCount
    /\ Returned => Len(last.result.rec.tags) <= MaxTagCount

\* C21: when updateMemory returns a record, a row with its id is stored at
\* that moment and maps to the returned record, also when a deleteMemory
\* of another caller came between the update's read and its write.
C21_UpdateReturnsStoredRow ==
    (IsCall("update") /\ Returned) =>
        /\ HasRow(table, last.id)
        /\ Stored(last.id) = last.result.rec

UpdatableFields == {"title", "content", "importance", "tags", "metadata"}

\* C22: an updateMemory leaves every field its input omits as the row had
\* it just before the update's write, also when another updateMemory of
\* the same id wrote between this update's read and its write.
C22_OmittedFieldsUntouched ==
    (IsCall("update") /\ Returned /\ last.atWrite # NotFound) =>
        \A field \in UpdatableFields :
            IsUndefined(last.input[field]) =>
                Stored(last.id)[field] = last.atWrite.rec[field]

\* C23: a listMemories result has at most max(0, total - offset) items,
\* also when a row was inserted or deleted between its page statement and
\* its count statement.
C23_ItemsWithinTotal ==
    Listed =>
        Len(last.result.items) <= Max2(0, last.result.total - last.result.offset)

\* C24: the record an updateMemory returns is the record a getMemory of
\* its id returns right after it, field by field, whatever the columns of
\* the row held before the update.
C24_UpdateReturnIsStored ==
    (IsCall("update") /\ Returned) =>
        /\ GetResult(table, last.id).kind = "rec"
        /\ \A field \in DOMAIN last.result.rec :
              Stored(last.id)[field] = last.result.rec[field]

HasImportanceBound(f) == TypeofNumber(f.minImportance) \/ TypeofNumber(f.maxImportance)

\* C25: a listMemories with a minImportance or a maxImportance, 0
\* included, returns no record whose importance is null, and its total
\* counts none: the total is at most the number of stored records with an
\* importance, and, when the bounds are the only filters, the number of
\* stored records whose importance is within them.
C25_NullImportanceExcluded ==
    (Listed /\ HasImportanceBound(last.filters)) =>
        /\ \A j \in DOMAIN last.result.items :
              ~IsNull(last.result.items[j].importance)
        /\ last.result.total
              <= Cardinality({i \in DOMAIN table : ~IsNull(MapRow(table[i]).importance)})
        /\ OnlyImportanceBounds(last.filters) =>
              last.result.total
                = Cardinality({i \in DOMAIN table :
                     WithinBounds(MapRow(table[i]).importance, last.filters)})

\* a list with minImportance 0 over a record without importance and one
\* with importance has returned the second only, with total 1
C25_Witness ==
    /\ Listed
    /\ last.filters.minImportance = Num(0)
    /\ \E i \in DOMAIN table : IsNull(table[i].importance)
    /\ Len(last.result.items) = 1
    /\ last.result.total = 1

ShutdownSafe ==
    srv # NotStarted =>
        /\ srv.serverCloseCalls <= 1
        /\ srv.transportCloseCalls <= 1
        /\ srv.offRuns <= 1
        /\ srv.closed <=> srv.offRuns = 1
        /\ srv.wait = "rejected" <=> srv.errorFirst
        /\ srv.wait = "resolved" => srv.closed

\* a signal, a transport event or a shutdown() call has come
ShutdownTriggered == srv # NotStarted /\ srv.events > 0

\* waitUntilClosed is settled and finalize has taken the handlers off
ShutdownDone ==
    /\ srv # NotStarted
    /\ srv.wait # "pending"
    /\ srv.closed
    /\ srv.offRuns = 1

\* the process was ended by a signal it had no listener for
ProcessEnded == srv # NotStarted /\ srv.state = "killed"

\* C26 as stated: after any signals, transport errors, transport close
\* events and shutdown() calls, server.close and transport.close are called
\* at most once each, the signal handlers are taken off once, and
\* waitUntilClosed settles in the end, rejected when a transport error came
\* before it settled and resolved otherwise.
C26_ShutdownAlwaysCompletes ==
    /\ []ShutdownSafe
    /\ ShutdownTriggered ~> ShutdownDone

\* C26, amended: the same, except that waitUntilClosed need not settle
\* when the process is ended by a signal it has no listener for any more
\* (process.once took the listener off at the first delivery, finalize
\* takes both off).
C26_ShutdownCompletesUnlessEnded ==
    /\ []ShutdownSafe
    /\ ShutdownTriggered ~> (ShutdownDone \/ ProcessEnded)

\* a transport error came first, then a signal, server.close or
\* transport.close threw, and the shutdown is complete: waitUntilClosed is
\* rejected, each close was called once, the handlers were taken off once
C26_Witness ==
    /\ srv # NotStarted
    /\ srv.state = "running"
    /\ srv.events > 1
    /\ srv.threw
    /\ srv.wait = "rejected"
    /\ srv.closed /\ srv.pc = "done"
    /\ srv.serverCloseCalls = 1 /\ srv.transportCloseCalls = 1
    /\ srv.offRuns = 1 /\ srv.listeners = {}

====
